---- MODULE Spec2Model ----
(***************************************************************************)
(* Commission lifecycle of the artist marketplace backend:                 *)
(*   server/models/Commission.js        (schema, addMessage, updateStatus) *)
(*   server/controllers/commissionController.js   (the request handlers)   *)
(*   server/routes/artists.js           (validation chains and routes)     *)
(*                                                                         *)
(* Money is a JavaScript Number.  The prices below are chosen so that     *)
(* price * percentage / 100 and price * 0.5 are whole and \div             *)
(* computes what the double arithmetic computes.  Dates are whole          *)
(* days.  A field that is absent from a document or a request body holds   *)
(* Undefined; a value that Number() cannot convert holds NotANumber; the    *)
(* null of a JSON body holds Null.                                         *)
(***************************************************************************)
EXTENDS Integers, Sequences, FiniteSets, TLC

\* ---------------------------------------------------------------- bounds
MaxCommissions == 1
MaxNow == 1
MaxMilestones == 2
MaxLog == 1
MaxProgress == 1
MaxMessages == 2

\* ------------------------------------------------------- JavaScript values
Undefined == -1000
NotANumber == -2000
Null == -3000
IsNum(v) == v \notin {Undefined, NotANumber, Null}
\* the operand of an arithmetic operator: null counts as 0, undefined as NaN
ToNumber(v) == IF v = Null THEN 0 ELSE IF v = Undefined THEN NotANumber ELSE v
\* a JavaScript value used as a condition
Truthy(v) == IsNum(v) /\ v # 0
\* faulty variant: the division first, on whole numbers
MulDiv_DivideFirst(a, b, c) ==
  IF ToNumber(a) # NotANumber /\ ToNumber(b) # NotANumber
    THEN (ToNumber(a) \div c) * ToNumber(b)
    ELSE NotANumber
\* a * b / c on Numbers: NaN as soon as an operand is not a number
MulDiv(a, b, c) ==
  IF ToNumber(a) # NotANumber /\ ToNumber(b) # NotANumber
    THEN (ToNumber(a) * ToNumber(b)) \div c
    ELSE NotANumber
\* date + days
AddDays(d, n) == d + n
ThirtyDays == 30

\* ------------------------------------------------------------ the users
UserIds == {"ann", "bob", "eve"}
role(u) == IF u = "bob" THEN "artist" ELSE "user"
\* ids a request may name: the users and one id that resolves to nobody
IdInputs == UserIds \cup {"zed"}
\* a text that is not an ObjectId
MalformedId == "not-an-id"
\* isMongoId() of express-validator
isMongoId(a) == a # MalformedId

\* --------------------------------------------------------- the schema
StatusEnum == {"pending", "reviewing", "quoted", "negotiating", "accepted",
               "in_progress", "review", "revision", "completed", "delivered",
               "cancelled", "rejected"}
\* a status document path that was unset
NoStatus == "undefined"
TypeEnum == {"message", "quote", "revision_request", "approval", "delivery"}

\* a value of a JSON body: a number, or a string of decimal digits
JsonNum(n) == [t |-> "number", v |-> n]
JsonStr(n) == [t |-> "string", v |-> n]

RECURSIVE Digits(_)
\* String(n): the decimal digits of n
Digits(n) == IF n < 10 THEN <<n>> ELSE Digits(n \div 10) \o <<n % 10>>

RECURSIVE LexLess(_, _)
\* s < t on strings: code unit by code unit, a proper prefix is smaller
LexLess(s, t) ==
  IF t = <<>> THEN FALSE
  ELSE IF s = <<>> THEN TRUE
  ELSE IF Head(s) # Head(t) THEN Head(s) < Head(t)
  ELSE LexLess(Tail(s), Tail(t))

\* a < b of JavaScript: two strings compare as strings, anything else as numbers
JsLess(a, b) ==
  IF a.t = "string" /\ b.t = "string"
    THEN LexLess(Digits(a.v), Digits(b.v))
    ELSE a.v < b.v

\* isFloat({ min: 1 }) of express-validator: the value is stringified first
isFloatMin1(a) == a.v >= 1

\* mongoose casts a numeric string to a Number
CastNumber(a) == a.v

VARIABLES
  store,  \* the stored Commission documents, by id
  now,    \* the clock, in days
  req,    \* the request the last handler served: handler, caller, route id, body
  res,    \* the status code of its response
  mail,   \* the notifications it sent
  inflight \* the handlers that are between their findById and their save
vars == <<store, now, req, res, mail, inflight>>

Ids == 1..Len(store)

Request(op, user, id, body) == [op |-> op, user |-> user, id |-> id, body |-> body]
NoBody == [none |-> TRUE]

\* a handler that is not running
Idle == [stage |-> "idle"]
\* no handler is between its findById and its save
NoneInFlight == [op \in {"submitQuote", "acceptQuote"} |-> Idle]

\* sendEmail: delivers to the recipient, or throws
sendEmail(to, ok) == IF ok THEN <<to>> ELSE <<>>

\* ------------------------------------------------- RequestCommission
BudgetInputs == {JsonNum(0), JsonNum(5), JsonNum(10), JsonStr(5), JsonStr(10)}
\* a request that passes every check
GoodBody == [artistId |-> "bob", titleLen |-> 5, descLen |-> 20,
             min |-> JsonNum(5), max |-> JsonNum(10), deadline |-> Undefined]
\* the bodies a request may carry: GoodBody, and GoodBody with one part replaced
\* (another artistId, a short title, a short description, a deadline, a budget)
CommissionBodies ==
  {[GoodBody EXCEPT !.artistId = a] : a \in IdInputs \cup {MalformedId}}
    \cup {[GoodBody EXCEPT !.titleLen = 4], [GoodBody EXCEPT !.descLen = 19],
          [GoodBody EXCEPT !.deadline = 2]}
    \cup {[GoodBody EXCEPT !.min = lo, !.max = hi] : lo \in BudgetInputs, hi \in BudgetInputs}

\* the chain validateCommission: TRUE when validationResult(req) is empty
validateCommission(body) ==
  /\ isMongoId(body.artistId)
  /\ body.titleLen >= 5 /\ body.titleLen <= 200
  /\ body.descLen >= 20 /\ body.descLen <= 2000
  /\ isFloatMin1(body.min)
  /\ isFloatMin1(body.max)
  /\ ~ JsLess(body.max, body.min)

\* faulty variant: the lookup without the role filter
findArtist_AnyRole(artistId) == artistId \in UserIds
\* User.findOne({ _id: artistId, role: 'artist' }) found a user
findArtist(artistId) == artistId \in UserIds /\ role(artistId) = "artist"

\* faulty variant: the client and the artist the wrong way round
NewCommission_Swapped(client, artist, min, max, estimatedDays) ==
  [client |-> artist,
   artist |-> client,
   budget |-> [min |-> min, max |-> max],
   proposedPrice |-> Undefined,
   agreedPrice |-> Undefined,
   status |-> "pending",
   timeline |-> [estimatedDays |-> estimatedDays, startDate |-> Undefined,
                 expectedCompletion |-> Undefined],
   milestones |-> <<>>,
   communication |-> <<>>,
   workInProgress |-> <<>>,
   payment |-> [totalAmount |-> Undefined, paidAmount |-> 0,
                paymentSchedule |-> <<>>]]
\* new Commission({...}) with the schema's defaults
NewCommission(client, artist, min, max, estimatedDays) ==
  [client |-> client,
   artist |-> artist,
   budget |-> [min |-> min, max |-> max],
   proposedPrice |-> Undefined,
   agreedPrice |-> Undefined,
   status |-> "pending",
   timeline |-> [estimatedDays |-> estimatedDays, startDate |-> Undefined,
                 expectedCompletion |-> Undefined],
   milestones |-> <<>>,
   communication |-> <<>>,
   workInProgress |-> <<>>,
   payment |-> [totalAmount |-> Undefined, paidAmount |-> 0,
                paymentSchedule |-> <<>>]]

createCommission(user, body, emailOk) ==
  /\ req' = Request("createCommission", user, 0, body)
  /\ IF ~ validateCommission(body)
       THEN /\ res' = 400
            /\ UNCHANGED store
            /\ mail' = <<>>
     ELSE IF ~ findArtist(body.artistId)
       THEN /\ res' = 404
            /\ UNCHANGED store
            /\ mail' = <<>>
     ELSE LET estimatedDays == IF body.deadline # Undefined
                                 THEN body.deadline - now
                                 ELSE Undefined
              commission == NewCommission(user, body.artistId,
                                          CastNumber(body.min), CastNumber(body.max),
                                          estimatedDays)
          IN /\ Len(store) < MaxCommissions
             /\ store' = Append(store, commission)
             /\ mail' = sendEmail(body.artistId, emailOk)
             /\ res' = IF emailOk THEN 201 ELSE 500
  /\ UNCHANGED <<now, inflight>>

RequestCommission ==
  \E user \in UserIds, body \in CommissionBodies, emailOk \in BOOLEAN :
    createCommission(user, body, emailOk)

\* the clock
Tick == /\ now < MaxNow
        /\ now' = now + 1
        /\ UNCHANGED <<store, req, res, mail, inflight>>

\* ------------------------------------------------------ mongoose validation
\* a Number path: absent, null, or a value that casts to a Number
NumberPath(v) == v # NotANumber

\* milestones[].paymentPercentage: { type: Number, min: 0, max: 100 }
ValidMilestone(m) ==
  /\ NumberPath(m.paymentPercentage)
  /\ IsNum(m.paymentPercentage) => m.paymentPercentage >= 0 /\ m.paymentPercentage <= 100

\* a text is the sequence of its words; the empty text has none
NoText == <<>>

\* communication[]: message required (the sender is always the caller's id),
\* type in the enum
ValidMessage(e) ==
  /\ e.message # NoText
  /\ e.type \in TypeEnum

\* document.save() runs the schema's validators and rejects on the first failure
Validates(c) ==
  /\ c.status \in StatusEnum \cup {NoStatus}
  /\ NumberPath(c.proposedPrice)
  /\ NumberPath(c.agreedPrice)
  /\ NumberPath(c.timeline.estimatedDays)
  /\ NumberPath(c.payment.totalAmount)
  /\ \A i \in 1..Len(c.milestones) : ValidMilestone(c.milestones[i])
  /\ \A i \in 1..Len(c.communication) : ValidMessage(c.communication[i])
  /\ \A i \in 1..Len(c.payment.paymentSchedule) :
        NumberPath(c.payment.paymentSchedule[i].amount)

\* the other party of a commission, as the handlers pick the recipient
Recipient(c, user) == IF c.client = user THEN c.artist ELSE c.client

\* faulty variant: a failed send undoes the save
SaveAndNotify_Rollback(id, c, to, emailOk) ==
  IF ~ Validates(c)
    THEN /\ res' = 500
         /\ UNCHANGED store
         /\ mail' = <<>>
    ELSE /\ store' = IF emailOk THEN [store EXCEPT ![id] = c] ELSE store
         /\ mail' = sendEmail(to, emailOk)
         /\ res' = IF emailOk THEN 200 ELSE 500
\* commission.save() followed by the notification and the response:
\* a rejected save and a failed send both end in the catch block (500)
SaveAndNotify(id, c, to, emailOk) ==
  IF ~ Validates(c)
    THEN /\ res' = 500
         /\ UNCHANGED store
         /\ mail' = <<>>
    ELSE /\ store' = [store EXCEPT ![id] = c]
         /\ mail' = sendEmail(to, emailOk)
         /\ res' = IF emailOk THEN 200 ELSE 500

\* faulty variant: the check of addMessage pasted where the artist is required
NotTheArtist_AnyParty(c, user) == c.client # user /\ c.artist # user
\* commission.artist.toString() !== req.user.id
NotTheArtist(c, user) == c.artist # user
\* faulty variant: the check of addMessage pasted where the client is required
NotTheClient_AnyParty(c, user) == c.client # user /\ c.artist # user
\* commission.client.toString() !== req.user.id
NotTheClient(c, user) == c.client # user
\* faulty variant: the test the wrong way round
NotAParty_Inverted(c, user) == c.client = user \/ c.artist = user
\* neither of the two
NotAParty(c, user) == c.client # user /\ c.artist # user

\* findById found nothing
NotFound == /\ res' = 404 /\ UNCHANGED store /\ mail' = <<>>
\* the caller is not the party the handler requires
Forbidden == /\ res' = 403 /\ UNCHANGED store /\ mail' = <<>>

\* Commission.findById: the stored document as mongoose hands it to the handler.
\* A path that is not stored and has a default in the schema carries the
\* default, and the next save() writes it (status: default 'pending')
findById(id) == [store[id] EXCEPT !.status = IF @ = NoStatus THEN "pending" ELSE @]

\* -------------------------------------------------------- Commission methods
\* faulty variant: the newest entry first
Commission_addMessage_Unshift(c, senderId, message, type) ==
  [c EXCEPT !.communication =
     <<[sender |-> senderId, message |-> message, type |-> type,
        timestamp |-> now]>> \o @]
\* commissionSchema.methods.addMessage, before its save()
Commission_addMessage(c, senderId, message, type) ==
  [c EXCEPT !.communication =
     Append(@, [sender |-> senderId, message |-> message, type |-> type,
                timestamp |-> now])]

\* faulty variant: a status that ends the lifecycle is kept
Commission_updateStatus_Guarded(c, newStatus, updatedBy) ==
  [c EXCEPT !.status = IF c.status \in {"completed", "delivered", "cancelled", "rejected"}
                         THEN c.status ELSE newStatus,
            !.communication =
              Append(@, [sender |-> updatedBy,
                         message |-> <<"Status changed from", c.status, "to", newStatus>>,
                         type |-> "message", timestamp |-> now])]
\* commissionSchema.methods.updateStatus, before its save()
Commission_updateStatus(c, newStatus, updatedBy) ==
  [c EXCEPT !.status = newStatus,
            !.communication =
              Append(@, [sender |-> updatedBy,
                         message |-> <<"Status changed from", c.status, "to", newStatus>>,
                         type |-> "message", timestamp |-> now])]

\* ------------------------------------------------------------ UpdateStatus
updateCommissionStatus(user, id, status, emailOk) ==
  /\ req' = Request("updateCommissionStatus", user, id, [status |-> status])
  /\ IF id \notin Ids THEN NotFound
     ELSE IF NotAParty(findById(id), user) THEN Forbidden
     ELSE SaveAndNotify(id, Commission_updateStatus(findById(id), status, user),
                        Recipient(findById(id), user), emailOk)
  /\ UNCHANGED <<now, inflight>>

\* -------------------------------------------------------------- AddMessage
addMessage(user, id, body, emailOk) ==
  /\ req' = Request("addMessage", user, id, body)
  /\ IF id \notin Ids THEN NotFound
     ELSE IF NotAParty(findById(id), user) THEN Forbidden
     ELSE SaveAndNotify(id, Commission_addMessage(findById(id), user, body.message, body.type),
                        Recipient(findById(id), user), emailOk)
  /\ UNCHANGED <<now, inflight>>

\* ------------------------------------------------------------- SubmitQuote
\* { ...commission.timeline, ...timeline }: a key of the body wins
MergeTimeline(old, new) ==
  [f \in DOMAIN old |-> IF new[f] # Undefined THEN new[f] ELSE old[f]]

\* a milestone subdocument cast from the body, with the schema's defaults
CastMilestone(m) ==
  [dueDate |-> m.dueDate, completed |-> FALSE, completedDate |-> Undefined,
   paymentPercentage |-> m.paymentPercentage]

\* the commission as submitQuote leaves it before saving
WithQuote(c, body) ==
  [c EXCEPT !.proposedPrice = body.proposedPrice,
            !.timeline = MergeTimeline(@, body.timeline),
            !.milestones = [i \in 1..Len(body.milestones) |->
                              CastMilestone(body.milestones[i])],
            !.status = "quoted"]

submitQuote(user, id, body, emailOk) ==
  /\ req' = Request("submitQuote", user, id, body)
  /\ IF id \notin Ids THEN NotFound
     ELSE IF NotTheArtist(findById(id), user) THEN Forbidden
     ELSE SaveAndNotify(id, WithQuote(findById(id), body), findById(id).client, emailOk)
  /\ UNCHANGED <<now, inflight>>

\* ------------------------------------------------------------- AcceptQuote
\* faulty variant: every milestone installment due today
paymentSchedule_DueNow(c) ==
  IF Len(c.milestones) > 0
    THEN [i \in 1..Len(c.milestones) |->
            [amount |-> MulDiv(c.agreedPrice, c.milestones[i].paymentPercentage, 100),
             dueDate |-> now,
             paid |-> FALSE]]
    ELSE << [amount |-> MulDiv(c.agreedPrice, 5, 10),
             dueDate |-> now,
             paid |-> FALSE],
            [amount |-> MulDiv(c.agreedPrice, 5, 10),
             dueDate |-> IF c.timeline.expectedCompletion # Undefined
                           THEN c.timeline.expectedCompletion
                           ELSE AddDays(now, ThirtyDays),
             paid |-> FALSE] >>

\* faulty variant: the second default installment ignores expectedCompletion
paymentSchedule_Always30(c) ==
  IF Len(c.milestones) > 0
    THEN [i \in 1..Len(c.milestones) |->
            [amount |-> MulDiv(c.agreedPrice, c.milestones[i].paymentPercentage, 100),
             dueDate |-> c.milestones[i].dueDate,
             paid |-> FALSE]]
    ELSE << [amount |-> MulDiv(c.agreedPrice, 5, 10),
             dueDate |-> now,
             paid |-> FALSE],
            [amount |-> MulDiv(c.agreedPrice, 5, 10),
             dueDate |-> AddDays(now, ThirtyDays),
             paid |-> FALSE] >>

\* the payment schedule acceptQuote derives for the commission it accepts
paymentSchedule(c) ==
  IF Len(c.milestones) > 0
    THEN [i \in 1..Len(c.milestones) |->
            [amount |-> MulDiv(c.agreedPrice, c.milestones[i].paymentPercentage, 100),
             dueDate |-> c.milestones[i].dueDate,
             paid |-> FALSE]]
    ELSE << [amount |-> MulDiv(c.agreedPrice, 5, 10),
             dueDate |-> now,
             paid |-> FALSE],
            [amount |-> MulDiv(c.agreedPrice, 5, 10),
             dueDate |-> IF c.timeline.expectedCompletion # Undefined
                           THEN c.timeline.expectedCompletion
                           ELSE AddDays(now, ThirtyDays),
             paid |-> FALSE] >>

\* faulty variant: a total that is set is kept
Accepted_KeepsTotal(c) ==
  LET c1 == [c EXCEPT !.agreedPrice = c.proposedPrice,
                      !.status = "accepted",
                      !.timeline.startDate = now]
      c2 == IF Truthy(c1.timeline.estimatedDays)
              THEN [c1 EXCEPT !.timeline.expectedCompletion =
                                AddDays(now, c1.timeline.estimatedDays)]
              ELSE c1
  IN [c2 EXCEPT !.payment.totalAmount = IF @ # Undefined THEN @ ELSE c2.agreedPrice,
                !.payment.paymentSchedule = paymentSchedule(c2)]
\* the commission as acceptQuote leaves it before saving
Accepted(c) ==
  LET c1 == [c EXCEPT !.agreedPrice = c.proposedPrice,
                      !.status = "accepted",
                      !.timeline.startDate = now]
      c2 == IF Truthy(c1.timeline.estimatedDays)
              THEN [c1 EXCEPT !.timeline.expectedCompletion =
                                AddDays(now, c1.timeline.estimatedDays)]
              ELSE c1
  IN [c2 EXCEPT !.payment.totalAmount = c2.agreedPrice,
                !.payment.paymentSchedule = paymentSchedule(c2)]

acceptQuote(user, id, emailOk) ==
  /\ req' = Request("acceptQuote", user, id, NoBody)
  /\ IF id \notin Ids THEN NotFound
     ELSE IF NotTheClient(findById(id), user) THEN Forbidden
     ELSE SaveAndNotify(id, Accepted(findById(id)), findById(id).artist, emailOk)
  /\ UNCHANGED <<now, inflight>>

\* ------------------------------------- submitQuote and acceptQuote overlapping
\* A handler awaits twice on the way to its response: at findById and at save().
\* Between the two it holds its own copy of the document, and another handler
\* may run.  save() sends the paths the handler modified and no others: a
\* Number or String path is modified when the assigned value differs from the
\* loaded one, an array unless it is assigned empty over empty, a Date and the
\* timeline object of submitQuote always.
Done(h) == [stage |-> "done", user |-> h.user, body |-> h.body]

\* the stored document after the save() of submitQuote
SavedQuote(stored, loaded, c) ==
  [stored EXCEPT
     !.proposedPrice = IF c.proposedPrice # loaded.proposedPrice THEN c.proposedPrice ELSE @,
     !.timeline = c.timeline,
     !.milestones = IF c.milestones = <<>> /\ loaded.milestones = <<>> THEN @ ELSE c.milestones,
     !.status = IF c.status # loaded.status THEN c.status ELSE @]

\* the stored document after the save() of acceptQuote
SavedAcceptance(stored, loaded, c) ==
  [stored EXCEPT
     !.agreedPrice = IF c.agreedPrice # loaded.agreedPrice THEN c.agreedPrice ELSE @,
     !.status = IF c.status # loaded.status THEN c.status ELSE @,
     !.timeline.startDate = c.timeline.startDate,
     !.timeline.expectedCompletion =
        IF Truthy(loaded.timeline.estimatedDays) THEN c.timeline.expectedCompletion ELSE @,
     !.payment.totalAmount =
        IF c.payment.totalAmount # loaded.payment.totalAmount THEN c.payment.totalAmount ELSE @,
     !.payment.paymentSchedule = c.payment.paymentSchedule]

\* submitQuote up to its await of save(): findById, the caller check, the
\* assignments
submitQuote_findById(user, id, body) ==
  /\ inflight.submitQuote = Idle
  /\ id \in Ids
  /\ IF NotTheArtist(findById(id), user)
       THEN /\ req' = Request("submitQuote", user, id, body)
            /\ Forbidden
            /\ inflight' = [inflight EXCEPT !.submitQuote = Done([user |-> user, body |-> body])]
       ELSE /\ inflight' = [inflight EXCEPT !.submitQuote =
                              [stage |-> "loaded", user |-> user, id |-> id, body |-> body,
                               loaded |-> findById(id),
                               commission |-> WithQuote(findById(id), body)]]
            /\ UNCHANGED <<store, req, res, mail>>
  /\ UNCHANGED now

\* submitQuote from its save() on
submitQuote_save(emailOk) ==
  LET h == inflight.submitQuote
  IN /\ h.stage = "loaded"
     /\ req' = Request("submitQuote", h.user, h.id, h.body)
     /\ IF ~ Validates(h.commission)
          THEN /\ res' = 500
               /\ UNCHANGED store
               /\ mail' = <<>>
          ELSE /\ store' = [store EXCEPT ![h.id] = SavedQuote(@, h.loaded, h.commission)]
               /\ mail' = sendEmail(h.loaded.client, emailOk)
               /\ res' = IF emailOk THEN 200 ELSE 500
     /\ inflight' = [inflight EXCEPT !.submitQuote = Done(h)]
     /\ UNCHANGED now

\* acceptQuote up to its await of save()
acceptQuote_findById(user, id) ==
  /\ inflight.acceptQuote = Idle
  /\ id \in Ids
  /\ IF NotTheClient(findById(id), user)
       THEN /\ req' = Request("acceptQuote", user, id, NoBody)
            /\ Forbidden
            /\ inflight' = [inflight EXCEPT !.acceptQuote = Done([user |-> user, body |-> NoBody])]
       ELSE /\ inflight' = [inflight EXCEPT !.acceptQuote =
                              [stage |-> "loaded", user |-> user, id |-> id, body |-> NoBody,
                               loaded |-> findById(id),
                               commission |-> Accepted(findById(id))]]
            /\ UNCHANGED <<store, req, res, mail>>
  /\ UNCHANGED now

\* acceptQuote from its save() on
acceptQuote_save(emailOk) ==
  LET h == inflight.acceptQuote
  IN /\ h.stage = "loaded"
     /\ req' = Request("acceptQuote", h.user, h.id, NoBody)
     /\ IF ~ Validates(h.commission)
          THEN /\ res' = 500
               /\ UNCHANGED store
               /\ mail' = <<>>
          ELSE /\ store' = [store EXCEPT ![h.id] = SavedAcceptance(@, h.loaded, h.commission)]
               /\ mail' = sendEmail(h.loaded.artist, emailOk)
               /\ res' = IF emailOk THEN 200 ELSE 500
     /\ inflight' = [inflight EXCEPT !.acceptQuote = Done(h)]
     /\ UNCHANGED now

\* ------------------------- addMessage and updateCommissionStatus overlapping
\* The two methods push one entry and call save().  save() sends the pushed
\* entry as a $push, which appends to the array as it is stored at that moment,
\* and the status when the assigned value differs from the loaded one; it does
\* not compare versions.
\* faulty variant: save() writes the whole array of the handler's copy
SavedLogEntry_WholeArray(stored, loaded, c) ==
  [stored EXCEPT
     !.communication = c.communication,
     !.status = IF c.status # loaded.status THEN c.status ELSE @]
\* the stored document after the save() of addMessage or updateStatus
SavedLogEntry(stored, loaded, c) ==
  [stored EXCEPT
     !.communication = Append(@, c.communication[Len(c.communication)]),
     !.status = IF c.status # loaded.status THEN c.status ELSE @]

\* the two callers whose requests overlap
Slots == {"client", "artist"}
NoneInFlightOf(slots) == [slot \in slots |-> Idle]
Party(c, slot) == IF slot = "client" THEN c.client ELSE c.artist

\* addMessage up to its await of save(): findById, the caller check, the push
addMessage_findById(slot, id, body) ==
  /\ inflight[slot] = Idle
  /\ id \in Ids
  /\ LET loaded == findById(id)
         user == Party(loaded, slot)
     IN /\ ~ NotAParty(loaded, user)
        /\ inflight' = [inflight EXCEPT ![slot] =
                          [stage |-> "loaded", op |-> "addMessage", user |-> user,
                           id |-> id, body |-> body, loaded |-> loaded,
                           commission |-> Commission_addMessage(loaded, user,
                                                                body.message, body.type)]]
  /\ UNCHANGED <<store, now, req, res, mail>>

\* updateCommissionStatus up to its await of save()
updateCommissionStatus_findById(slot, id, status) ==
  /\ inflight[slot] = Idle
  /\ id \in Ids
  /\ LET loaded == findById(id)
         user == Party(loaded, slot)
     IN /\ ~ NotAParty(loaded, user)
        /\ inflight' = [inflight EXCEPT ![slot] =
                          [stage |-> "loaded", op |-> "updateCommissionStatus",
                           user |-> user, id |-> id, body |-> [status |-> status],
                           loaded |-> loaded,
                           commission |-> Commission_updateStatus(loaded, status, user)]]
  /\ UNCHANGED <<store, now, req, res, mail>>

\* either handler from the save() of its method on
Commission_save(slot, emailOk) ==
  LET h == inflight[slot]
      saved == Validates(h.commission)
      status == IF saved /\ emailOk THEN 200 ELSE 500
  IN /\ h.stage = "loaded"
     /\ req' = Request(h.op, h.user, h.id, h.body)
     /\ store' = IF saved
                   THEN [store EXCEPT ![h.id] = SavedLogEntry(@, h.loaded, h.commission)]
                   ELSE store
     /\ mail' = IF saved THEN sendEmail(Recipient(h.loaded, h.user), emailOk) ELSE <<>>
     /\ res' = status
     /\ inflight' = [inflight EXCEPT ![slot] =
                       [stage |-> "done", res |-> status, loaded |-> h.loaded,
                        entry |-> h.commission.communication[Len(h.commission.communication)]]]
     /\ UNCHANGED now

\* ---------------------------------------------------------- UploadProgress
uploadProgress(user, id, emailOk) ==
  /\ req' = Request("uploadProgress", user, id, NoBody)
  /\ IF id \notin Ids THEN NotFound
     ELSE IF NotTheArtist(findById(id), user) THEN Forbidden
     ELSE /\ Len(findById(id).workInProgress) < MaxProgress
          /\ SaveAndNotify(id, [findById(id) EXCEPT !.workInProgress =
                                  Append(@, [uploadDate |-> now])],
                           findById(id).client, emailOk)
  /\ UNCHANGED <<now, inflight>>

\* ------------------------------------------------------- CompleteMilestone
\* :milestoneIndex is a string of the route: the digits of a zero-based index,
\* or any other text, which names a property of the array
IndexParam(i) == [t |-> "index", v |-> i]
PropertyParam(name) == [t |-> "property", name |-> name]

\* faulty variant: the index counted from one
Lookup_OneBased(milestones, milestoneIndex) ==
  IF milestoneIndex.t = "index"
    THEN IF milestoneIndex.v \in 1..Len(milestones)
           THEN [kind |-> "milestone", at |-> milestoneIndex.v]
           ELSE [kind |-> "undefined", at |-> 0]
  ELSE IF milestoneIndex.name = "length"
    THEN [kind |-> "number", at |-> Len(milestones)]
  ELSE IF milestoneIndex.name = "push"
    THEN [kind |-> "function", at |-> 0]
  ELSE [kind |-> "undefined", at |-> 0]
\* commission.milestones[milestoneIndex]: the milestone at the index; the length
\* of the list for "length", a method of the array for "push", and undefined
\* for an index past the end or any other text
Lookup(milestones, milestoneIndex) ==
  IF milestoneIndex.t = "index"
    THEN IF milestoneIndex.v + 1 \in 1..Len(milestones)
           THEN [kind |-> "milestone", at |-> milestoneIndex.v + 1]
           ELSE [kind |-> "undefined", at |-> 0]
  ELSE IF milestoneIndex.name = "length"
    THEN [kind |-> "number", at |-> Len(milestones)]
  ELSE IF milestoneIndex.name = "push"
    THEN [kind |-> "function", at |-> 0]
  ELSE [kind |-> "undefined", at |-> 0]

\* !milestone: undefined and the number 0 are falsy
Falsy(value) == value.kind = "undefined" \/ (value.kind = "number" /\ value.at = 0)

\* the two assignments change a milestone; on a number they do nothing, on a
\* method they set properties of the method, and save() writes the document as
\* it was loaded
completeMilestone(user, id, milestoneIndex) ==
  /\ req' = Request("completeMilestone", user, id, [milestoneIndex |-> milestoneIndex])
  /\ IF id \notin Ids THEN NotFound
     ELSE IF NotTheArtist(findById(id), user) THEN Forbidden
     ELSE LET milestone == Lookup(findById(id).milestones, milestoneIndex)
          IN IF Falsy(milestone) THEN NotFound
             ELSE /\ store' = [store EXCEPT ![id] =
                                IF milestone.kind = "milestone"
                                  THEN [findById(id) EXCEPT !.milestones[milestone.at] =
                                          [@ EXCEPT !.completed = TRUE,
                                                    !.completedDate = now]]
                                  ELSE findById(id)]
                  /\ mail' = <<>>
                  /\ res' = 200
  /\ UNCHANGED <<now, inflight>>

\* ------------------------------------------------------- the request inputs
\* a commission id of the route: the stored ones and one that is not stored
IdParams == 1..(Len(store) + 1)

\* a handler that rejects a request on its caller or its id never reads the
\* body, so one body stands for all on those requests
IsParty(user, id) == id \in Ids /\ user \in {store[id].client, store[id].artist}
IsArtist(user, id) == id \in Ids /\ user = store[id].artist
IsClient(user, id) == id \in Ids /\ user = store[id].client
BodiesRead(read, Bodies) == IF read THEN Bodies ELSE {CHOOSE b \in Bodies : TRUE}
\* findById runs before the caller is looked at, so one caller stands for all
\* on an id that is not stored
Callers(id) == IF id \in Ids THEN UserIds ELSE {CHOOSE u \in UserIds : TRUE}

PriceInputs == {200, 400}
NoTimeline == [estimatedDays |-> Undefined, startDate |-> Undefined,
               expectedCompletion |-> Undefined]
TimelineInputs == {NoTimeline, [NoTimeline EXCEPT !.estimatedDays = 1]}
PercentInputs == {50}
\* a milestone list of the body: milestone i is due on day i
Milestones(n, pct) == [i \in 1..n |-> [paymentPercentage |-> pct, dueDate |-> i]]
\* milestones || []: an absent list is the empty one
MilestoneLists == {Milestones(n, pct) : n \in 0..MaxMilestones, pct \in PercentInputs}
Quote(price, timeline, milestones) ==
  [proposedPrice |-> price, timeline |-> timeline, milestones |-> milestones]
\* the well-formed quotes, one of them with unequal shares that are due out of
\* order; a quote whose price is not a number, one without a price, one whose
\* price is null, one whose milestone exceeds the schema's maximum, one whose
\* milestone carries no percentage
QuoteBodies ==
  {Quote(p, t, m) : p \in PriceInputs, t \in TimelineInputs, m \in MilestoneLists}
    \cup {Quote(200, NoTimeline, << [paymentPercentage |-> 30, dueDate |-> 2],
                                      [paymentPercentage |-> 70, dueDate |-> 1] >>),
          Quote(NotANumber, NoTimeline, <<>>),
          Quote(Undefined, NoTimeline, <<>>),
          Quote(Null, NoTimeline, <<>>),
          Quote(200, NoTimeline, Milestones(1, 101)),
          Quote(200, NoTimeline, Milestones(1, Undefined))}

StatusInputs == StatusEnum \cup {"bogus", NoStatus}
MessageBodies == [message : {<<"hello">>, NoText}, type : {"message", "approval", "bogus"}]

\* a request that would append to the log is issued while the log is shorter
\* than cap
UpdateStatusOf(Statuses, cap) ==
  \E id \in IdParams : \E user \in Callers(id) :
    \E status \in BodiesRead(IsParty(user, id), Statuses), emailOk \in BOOLEAN :
      /\ IsParty(user, id) => Len(store[id].communication) < cap
      /\ updateCommissionStatus(user, id, status, emailOk)

UpdateStatus == UpdateStatusOf(StatusInputs, MaxLog)

AddMessageOf(Bodies, cap) ==
  \E id \in IdParams : \E user \in Callers(id) :
    \E body \in BodiesRead(IsParty(user, id), Bodies), emailOk \in BOOLEAN :
      /\ IsParty(user, id) => Len(store[id].communication) < cap
      /\ addMessage(user, id, body, emailOk)

AddMessage == AddMessageOf(MessageBodies, MaxLog)

SubmitQuoteOf(Bodies) ==
  \E id \in IdParams : \E user \in Callers(id) :
    \E body \in BodiesRead(IsArtist(user, id), Bodies), emailOk \in BOOLEAN :
      submitQuote(user, id, body, emailOk)

SubmitQuote == SubmitQuoteOf(QuoteBodies)

\* a quote of one price and nothing else
SubmitPlainQuote == SubmitQuoteOf({Quote(200, NoTimeline, <<>>)})

AcceptQuote ==
  \E id \in IdParams : \E user \in Callers(id), emailOk \in BOOLEAN :
    acceptQuote(user, id, emailOk)

UploadProgress ==
  \E id \in IdParams : \E user \in Callers(id), emailOk \in BOOLEAN :
    uploadProgress(user, id, emailOk)

\* the indexes of a list of n milestones and the one past its end, and two texts
MilestoneIndexInputs(n) ==
  {IndexParam(i) : i \in 0..n}
    \cup {PropertyParam("length"), PropertyParam("push")}

\* the number of milestones of the commission a route names
MilestoneCount(id) == IF id \in Ids THEN Len(store[id].milestones) ELSE 0

CompleteMilestone ==
  \E id \in IdParams : \E user \in Callers(id) :
    \E milestoneIndex \in BodiesRead(IsArtist(user, id),
                                      MilestoneIndexInputs(MilestoneCount(id))) :
      completeMilestone(user, id, milestoneIndex)

\* ------------------------------------------------------- the specifications
\* the quote and its acceptance, on one commission that RequestCommission created
Init ==
  /\ \E client \in {"ann", "bob"} :
       /\ store = << NewCommission(client, "bob", 5, 10, Undefined) >>
       /\ req = Request("createCommission", client, 0, NoBody)
  /\ now = 0
  /\ res = 201
  /\ mail = <<"bob">>
  /\ inflight = NoneInFlight

Next ==
  \/ SubmitQuote
  \/ AcceptQuote
  \/ Tick

Spec == Init /\ [][Next]_vars

\* the status of one commission: every status a request may carry
NextStatus ==
  \/ UpdateStatus
  \/ SubmitPlainQuote
  \/ AcceptQuote

SpecStatus == Init /\ [][NextStatus]_vars

\* every operation on one commission: messages, status changes, one quote with
\* a milestone, its acceptance, progress uploads and milestone completions
LogStatuses == {"in_progress", "bogus"}
\* a message, and a body without text, which the schema rejects
LogBodies == {[message |-> <<"hello">>, type |-> "message"],
              [message |-> NoText, type |-> "message"]}
LogMessage == AddMessageOf(LogBodies, MaxMessages)
LogStatus == UpdateStatusOf(LogStatuses, MaxMessages)
SubmitMilestoneQuote == SubmitQuoteOf({Quote(200, NoTimeline, Milestones(1, 50))})

NextLog ==
  \/ LogMessage
  \/ LogStatus
  \/ SubmitMilestoneQuote
  \/ AcceptQuote
  \/ UploadProgress
  \/ CompleteMilestone

\* the commission ann requested from bob, after ann's first message on it
InitLog ==
  /\ now = 0
  /\ store = << Commission_addMessage(NewCommission("ann", "bob", 5, 10, Undefined),
                                       "ann", <<"hello">>, "message") >>
  /\ req = Request("addMessage", "ann", 1, [message |-> <<"hello">>, type |-> "message"])
  /\ res = 200
  /\ mail = <<"bob">>
  /\ inflight = NoneInFlight

SpecLog == InitLog /\ [][NextLog]_vars

\* one SubmitQuote and one AcceptQuote that overlap, on a commission that
\* carries a first quote of 200
RaceStart == WithQuote(NewCommission("ann", "bob", 5, 10, Undefined),
                       Quote(200, NoTimeline, <<>>))
\* the second quote: another price, with and without a milestone, with a
\* duration, and one the schema rejects
RaceQuotes == {Quote(400, NoTimeline, <<>>),
               Quote(400, NoTimeline, Milestones(1, 50)),
               Quote(400, [NoTimeline EXCEPT !.estimatedDays = 1], <<>>),
               Quote(NotANumber, NoTimeline, <<>>)}

InitRace ==
  /\ now = 0
  /\ store = << RaceStart >>
  /\ req = Request("submitQuote", "bob", 1, Quote(200, NoTimeline, <<>>))
  /\ res = 200
  /\ mail = <<"ann">>
  /\ inflight = NoneInFlight

SubmitQuoteLoads ==
  \E id \in Ids, user \in UserIds, body \in RaceQuotes : submitQuote_findById(user, id, body)
SubmitQuoteSaves == \E emailOk \in BOOLEAN : submitQuote_save(emailOk)
AcceptQuoteLoads == \E id \in Ids, user \in UserIds : acceptQuote_findById(user, id)
AcceptQuoteSaves == \E emailOk \in BOOLEAN : acceptQuote_save(emailOk)

NextRace ==
  \/ SubmitQuoteLoads
  \/ SubmitQuoteSaves
  \/ AcceptQuoteLoads
  \/ AcceptQuoteSaves

SpecRace == InitRace /\ [][NextRace]_vars

\* RequestCommission on an empty store
InitCreate ==
  /\ store = <<>>
  /\ now = 0
  /\ req = Request("none", "none", 0, NoBody)
  /\ res = 0
  /\ mail = <<>>
  /\ inflight = NoneInFlight

NextCreate == RequestCommission \/ Tick

SpecCreate == InitCreate /\ [][NextCreate]_vars

\* from the request to the acceptance: a request with a budget of 100 to 300,
\* a quote of 250 in two halves or in one piece, the acceptance
ScenarioBody == [GoodBody EXCEPT !.min = JsonNum(100), !.max = JsonNum(300)]
ScenarioQuotes == {Quote(250, NoTimeline, Milestones(2, 50)),
                   Quote(250, NoTimeline, <<>>)}
RequestScenario ==
  \E user \in UserIds, emailOk \in BOOLEAN : createCommission(user, ScenarioBody, emailOk)
SubmitScenarioQuote == SubmitQuoteOf(ScenarioQuotes)

NextScenario ==
  \/ RequestScenario
  \/ SubmitScenarioQuote
  \/ AcceptQuote
  \/ Tick

SpecScenario == InitCreate /\ [][NextScenario]_vars

\* one UpdateStatus after another: the commission ann requested from bob, after
\* ann's first UpdateStatus on it, which carried one of the twelve values or none
TransitionStart(status) ==
  Commission_updateStatus(NewCommission("ann", "bob", 5, 10, Undefined), status, "ann")

InitTransitions ==
  /\ now = 0
  /\ \E status \in StatusEnum \cup {NoStatus} :
       /\ store = << TransitionStart(status) >>
       /\ req = Request("updateCommissionStatus", "ann", 1, [status |-> status])
  /\ res = 200
  /\ mail = <<"bob">>
  /\ inflight = NoneInFlight

NextStatusChange == UpdateStatusOf(StatusInputs, MaxMessages)

NextTransitions == NextStatusChange \/ Tick

SpecTransitions == InitTransitions /\ [][NextTransitions]_vars

\* the milestones of one commission: the commission ann requested from bob,
\* after bob's quote of 200 in equal milestones
MilestoneQuote == Quote(200, NoTimeline, Milestones(MaxMilestones, 50))

InitMilestones ==
  /\ now = 0
  /\ store = << WithQuote(NewCommission("ann", "bob", 5, 10, Undefined), MilestoneQuote) >>
  /\ req = Request("submitQuote", "bob", 1, MilestoneQuote)
  /\ res = 200
  /\ mail = <<"ann">>
  /\ inflight = NoneInFlight

\* a status change to in_progress, and one that carries no status
MilestoneStatus == UpdateStatusOf({"in_progress", NoStatus}, MaxLog)

NextMilestones ==
  \/ AcceptQuote
  \/ MilestoneStatus
  \/ CompleteMilestone

SpecMilestones == InitMilestones /\ [][NextMilestones]_vars

\* the dates of one commission: a request with or without a deadline (a day
\* that is past, today or to come), quotes with and without a timeline, the
\* acceptance
DeadlineInputs == {Undefined} \cup 0..(MaxNow + 1)
RequestDeadline ==
  \E user \in {"ann"}, deadline \in DeadlineInputs, emailOk \in BOOLEAN :
    createCommission(user, [GoodBody EXCEPT !.deadline = deadline], emailOk)

\* a quote without a timeline, one with a duration, one with a completion date
TimelineQuotes ==
  {Quote(200, t, <<>>) : t \in {NoTimeline,
                                 [NoTimeline EXCEPT !.estimatedDays = 1],
                                 [NoTimeline EXCEPT !.expectedCompletion = 0]}}
SubmitTimelineQuote == SubmitQuoteOf(TimelineQuotes)

NextTimeline ==
  \/ RequestDeadline
  \/ SubmitTimelineQuote
  \/ AcceptQuote
  \/ Tick

SpecTimeline == InitCreate /\ [][NextTimeline]_vars

\* a request of the client and a request of the artist that overlap, on the
\* commission ann requested from bob, after ann's first message on it
LogRaceStart == Commission_addMessage(NewCommission("ann", "bob", 5, 10, Undefined),
                                      "ann", <<"hello">>, "message")

InitLogRace ==
  /\ now = 0
  /\ store = << LogRaceStart >>
  /\ req = Request("addMessage", "ann", 1, [message |-> <<"hello">>, type |-> "message"])
  /\ res = 200
  /\ mail = <<"bob">>
  /\ inflight = NoneInFlightOf(Slots)

AddMessageLoads ==
  \E slot \in Slots, id \in Ids, body \in LogBodies : addMessage_findById(slot, id, body)
UpdateStatusLoads ==
  \E slot \in Slots, id \in Ids, status \in LogStatuses :
    updateCommissionStatus_findById(slot, id, status)
LogEntrySaves == \E slot \in Slots, emailOk \in BOOLEAN : Commission_save(slot, emailOk)

NextLogRace ==
  \/ AddMessageLoads
  \/ UpdateStatusLoads
  \/ LogEntrySaves
  \/ Tick

SpecLogRace == InitLogRace /\ [][NextLogRace]_vars

\* ================================================================ properties
\* a step in which the handler op served a request (Tick alone moves the clock)
Handled(op) == now' = now /\ req'.op = op
\* the request was served on a stored commission
OnStored == req'.id \in Ids
\* the commission of the request, before and after it
Before == store[req'.id]
After == store'[req'.id]
\* acceptQuote saved the commission (the notification may still have failed)
AcceptSaved == Handled("acceptQuote") /\ OnStored /\ (res' = 200 \/ store' # store)

RECURSIVE SumAmounts(_)
SumAmounts(schedule) ==
  IF schedule = <<>> THEN 0 ELSE Head(schedule).amount + SumAmounts(Tail(schedule))

Terminal == {"completed", "delivered", "cancelled", "rejected"}
Lifecycle == <<"pending", "reviewing", "quoted", "negotiating", "accepted",
               "in_progress", "review", "revision", "completed", "delivered">>
Position(status) == CHOOSE i \in 1..Len(Lifecycle) : Lifecycle[i] = status
InLifecycle(status) == \E i \in 1..Len(Lifecycle) : Lifecycle[i] = status
\* an edge of the lifecycle graph
Edge(from, to) ==
  \/ InLifecycle(from) /\ InLifecycle(to) /\ Position(from) < Position(to)
  \/ from \notin Terminal /\ to \in {"cancelled", "rejected"}
  \/ from \in {"review", "revision"} /\ to = "in_progress"

\* C1: a RequestCommission whose budget.max is below its budget.min is answered
\* with a validation error (400) and stores no commission.
C1_InvertedBudgetRejected ==
  [][(Handled("createCommission")
        /\ CastNumber(req'.body.max) < CastNumber(req'.body.min))
       => (res' = 400 /\ store' = store)]_vars

SchemaAcceptsQuote(body) ==
  /\ body.proposedPrice # NotANumber
  /\ \A i \in 1..Len(body.milestones) :
       \/ body.milestones[i].paymentPercentage \in {Undefined, Null}
       \/ /\ body.milestones[i].paymentPercentage >= 0
          /\ body.milestones[i].paymentPercentage <= 100

Quoted(c) ==
  /\ c.proposedPrice # Undefined
  /\ \A i \in 1..Len(c.milestones) : c.milestones[i].paymentPercentage # Undefined

C4_AgreedPriceImmutable ==
  [][\A id \in Ids :
       store[id].agreedPrice # Undefined
         => store'[id].agreedPrice = store[id].agreedPrice]_vars

\* C5: once a commission has a payment schedule, an AcceptQuote does not replace
\* it with a different one.
C5_ScheduleDerivedOnce ==
  [][(Handled("acceptQuote") /\ OnStored
        /\ Before.payment.paymentSchedule # <<>>)
       => After.payment.paymentSchedule = Before.payment.paymentSchedule]_vars

\* C6: right after a successful AcceptQuote the amounts of the installments add up
\* to agreedPrice.
C6_ScheduleSumsToAgreedPrice ==
  (req.op = "acceptQuote" /\ req.id \in Ids /\ res = 200)
    => SumAmounts(store[req.id].payment.paymentSchedule) = store[req.id].agreedPrice

\* C7: an AcceptQuote on a commission with milestones derives one installment per
\* milestone, in milestone order, of amount agreedPrice * paymentPercentage / 100
\* and due on the milestone's dueDate, and sets payment.totalAmount to agreedPrice.
C7_MilestoneSchedule ==
  [][(AcceptSaved /\ Len(Before.milestones) > 0) =>
       /\ Len(After.payment.paymentSchedule) = Len(Before.milestones)
       /\ \A i \in 1..Len(Before.milestones) :
            /\ After.payment.paymentSchedule[i].amount * 100
                 = After.agreedPrice * Before.milestones[i].paymentPercentage
            /\ After.payment.paymentSchedule[i].dueDate = Before.milestones[i].dueDate
       /\ After.payment.totalAmount = After.agreedPrice
       /\ IsNum(After.agreedPrice)]_vars

\* a quote of 30% due on day 2 and 70% due on day 1 was accepted
C7_Witness ==
  /\ req.op = "acceptQuote" /\ req.id \in Ids /\ res = 200
  /\ Len(store[req.id].milestones) = 2
  /\ Len(store[req.id].payment.paymentSchedule) = 2
  /\ store[req.id].payment.paymentSchedule[1].amount = 60
  /\ store[req.id].payment.paymentSchedule[1].dueDate = 2
  /\ store[req.id].payment.paymentSchedule[2].amount = 140

\* C8: an AcceptQuote on a commission without milestones derives two installments
\* of agreedPrice / 2 each, the first due at acceptance time, the second at
\* timeline.expectedCompletion when there is one and 30 days after acceptance
\* otherwise.
C8_DefaultSchedule ==
  [][(AcceptSaved /\ Len(Before.milestones) = 0) =>
       /\ Len(After.payment.paymentSchedule) = 2
       /\ \A i \in 1..2 :
            After.payment.paymentSchedule[i].amount * 2 = ToNumber(After.agreedPrice)
       /\ After.payment.paymentSchedule[1].dueDate = now
       /\ After.payment.paymentSchedule[2].dueDate =
            IF After.timeline.expectedCompletion # Undefined
              THEN After.timeline.expectedCompletion
              ELSE now + 30]_vars

\* a commission without milestones and without an expected completion was
\* accepted on day 1: the second half is due on day 31
C8_Witness ==
  /\ req.op = "acceptQuote" /\ req.id \in Ids /\ res = 200
  /\ now = 1
  /\ store[req.id].milestones = <<>>
  /\ store[req.id].timeline.startDate = 1
  /\ store[req.id].timeline.expectedCompletion = Undefined
  /\ store[req.id].payment.paymentSchedule[2].dueDate = 31

\* C9: once the status is completed, delivered, cancelled or rejected, no
\* operation changes it.
C9_TerminalStatusFrozen ==
  [][\A id \in Ids :
       store[id].status \in Terminal => store'[id].status = store[id].status]_vars

\* C10: every change of status follows an edge of the lifecycle graph.
C10_StatusFollowsGraph ==
  [][\A id \in Ids :
       store'[id].status # store[id].status
         => Edge(store[id].status, store'[id].status)]_vars

\* s is a prefix of t
IsPrefix(s, t) == Len(s) <= Len(t) /\ SubSeq(t, 1, Len(s)) = s

\* C11: the communication log is append-only. Every step keeps the log it found
\* as a prefix of the log it leaves; an AddMessage that answers 200 appends
\* exactly one entry, the caller's message, at the end; SubmitQuote, AcceptQuote,
\* UploadProgress and CompleteMilestone leave the log as it is.
C11_LogAppendOnly ==
  [][\A id \in Ids :
       /\ IsPrefix(store[id].communication, store'[id].communication)
       /\ (Handled("addMessage") /\ req'.id = id /\ res' = 200)
            => store'[id].communication =
                 Append(store[id].communication,
                        [sender |-> req'.user, message |-> req'.body.message,
                         type |-> req'.body.type, timestamp |-> now])
       /\ req'.op \in {"submitQuote", "acceptQuote", "uploadProgress", "completeMilestone"}
            => store'[id].communication = store[id].communication]_vars

\* the artist's message was appended behind the client's, on a commission that
\* was quoted and accepted and has a completed milestone and an upload
C11_Witness ==
  /\ req.op = "addMessage" /\ res = 200
  /\ Len(store[1].communication) = 2
  /\ store[1].communication[1].sender = "ann"
  /\ store[1].communication[2].sender = "bob"
  /\ store[1].communication[2].message = <<"hello">>
  /\ store[1].status = "accepted"
  /\ store[1].milestones[1].completed
  /\ Len(store[1].workInProgress) = 1

\* C12: an AddMessage by a user who is neither the client nor the artist of the
\* commission is answered 403, leaves the log and the status as they are and
\* sends nothing; an AddMessage by the client or the artist leaves the status as
\* it is.
C12_AddMessageByPartyOnly ==
  [][(Handled("addMessage") /\ OnStored) =>
       /\ After.status = Before.status
       /\ req'.user \notin {Before.client, Before.artist}
            => /\ res' = 403
               /\ Len(After.communication) = Len(Before.communication)
               /\ mail' = <<>>]_vars

\* eve was refused on the accepted commission of ann and bob
C12_Witness ==
  /\ req.op = "addMessage" /\ req.id \in Ids
  /\ req.user = "eve"
  /\ res = 403
  /\ store[req.id].status = "accepted"
  /\ Len(store[req.id].communication) = 2

\* the route parameter is the index of one of the milestones
InRange(milestones, milestoneIndex) ==
  milestoneIndex.t = "index" /\ milestoneIndex.v + 1 \in 1..Len(milestones)

\* C13: a CompleteMilestone by the artist whose index is outside the milestone
\* list is answered 404, one by anybody else is answered 403, and both leave the
\* milestones as they are.
C13_MilestoneIndexChecked ==
  [][(Handled("completeMilestone") /\ OnStored) =>
       IF req'.user # Before.artist
         THEN res' = 403 /\ After.milestones = Before.milestones
         ELSE ~ InRange(Before.milestones, req'.body.milestoneIndex)
                => res' = 404 /\ After.milestones = Before.milestones]_vars

\* C14: a handler that changed the store answers with success.
C14_PersistedMeansSuccess ==
  [][store' # store => res' \in {200, 201}]_vars

\* the handler op served a request of a caller it admits, on a stored commission,
\* with a change the schema accepts, and answered 500: the save went through and
\* the notification after it failed
NotificationFailed(op, admitted, accepted) ==
  Handled(op) /\ OnStored /\ req'.user \in admitted /\ accepted /\ res' = 500

\* C15: a notification that fails after the save leaves the saved change in the
\* store: the new status and log entry of UpdateStatus, the new log entry of
\* AddMessage, the status, price and milestones of SubmitQuote, the status,
\* agreed price and schedule of AcceptQuote, the new entry of UploadProgress.
C15_FailedNotificationKeepsChange ==
  [][/\ NotificationFailed("updateCommissionStatus", {Before.client, Before.artist},
                           req'.body.status \in StatusEnum)
          => /\ After.status = req'.body.status
             /\ Len(After.communication) = Len(Before.communication) + 1
             /\ After.communication[Len(After.communication)].message
                  = <<"Status changed from", Before.status, "to", req'.body.status>>
     /\ NotificationFailed("addMessage", {Before.client, Before.artist},
                           req'.body.message # NoText /\ req'.body.type \in TypeEnum)
          => /\ Len(After.communication) = Len(Before.communication) + 1
             /\ After.communication[Len(After.communication)].message = req'.body.message
     /\ NotificationFailed("submitQuote", {Before.artist}, SchemaAcceptsQuote(req'.body))
          => /\ After.status = "quoted"
             /\ After.proposedPrice = req'.body.proposedPrice
             /\ Len(After.milestones) = Len(req'.body.milestones)
     /\ NotificationFailed("acceptQuote", {Before.client}, Quoted(Before))
          => /\ After.status = "accepted"
             /\ After.agreedPrice = Before.proposedPrice
             /\ After.payment.totalAmount = Before.proposedPrice
             /\ After.payment.paymentSchedule # <<>>
     /\ NotificationFailed("uploadProgress", {Before.artist}, TRUE)
          => Len(After.workInProgress) = Len(Before.workInProgress) + 1]_vars

\* the notification of an AcceptQuote failed and the commission is accepted, with
\* its agreed price and its schedule
C15_Witness ==
  /\ req.op = "acceptQuote" /\ req.id \in Ids
  /\ req.user = store[req.id].client
  /\ res = 500 /\ mail = <<>>
  /\ store[req.id].status = "accepted"
  /\ store[req.id].agreedPrice = 200
  /\ Len(store[req.id].payment.paymentSchedule) = 1
  /\ Len(store[req.id].communication) = 2

\* what a handler that runs alone leaves in the store
SubmitQuoteAlone(c, user, body) ==
  IF ~ NotTheArtist(c, user) /\ Validates(WithQuote(c, body)) THEN WithQuote(c, body) ELSE c
AcceptQuoteAlone(c, user) ==
  IF ~ NotTheClient(c, user) /\ Validates(Accepted(c)) THEN Accepted(c) ELSE c

\* C16: when a SubmitQuote and an AcceptQuote on the same commission have both
\* run to their end, the stored commission is what the two leave when one runs
\* after the other, in one of the two orders.
C16_Serializable ==
  (inflight.submitQuote.stage = "done" /\ inflight.acceptQuote.stage = "done")
    => LET s == inflight.submitQuote
           a == inflight.acceptQuote
       IN store[1] \in
            {AcceptQuoteAlone(SubmitQuoteAlone(RaceStart, s.user, s.body), a.user),
             SubmitQuoteAlone(AcceptQuoteAlone(RaceStart, a.user), s.user, s.body)}

\* the artistId of the request names a user whose role is artist
Resolves(artistId) == artistId \in UserIds /\ role(artistId) = "artist"

\* C17, as claimed: a RequestCommission whose artistId does not resolve to an
\* artist is answered 404, stores nothing and sends nothing.
C17_UnresolvedArtistNotFound ==
  [][(Handled("createCommission") /\ ~ Resolves(req'.body.artistId))
       => (res' = 404 /\ store' = store /\ mail' = <<>>)]_vars

\* C17, amended: a RequestCommission whose artistId does not resolve to an artist
\* stores nothing and sends nothing; it is answered 404 when the request passes
\* the validation chain and 400 when it does not.
C17_UnresolvedArtistRejected ==
  [][(Handled("createCommission") /\ ~ Resolves(req'.body.artistId))
       => /\ store' = store
          /\ mail' = <<>>
          /\ res' = IF validateCommission(req'.body) THEN 404 ELSE 400]_vars

\* a request that names ann, who is a user and not an artist, was answered 404
C17_Witness ==
  /\ req.op = "createCommission"
  /\ req.body.artistId = "ann"
  /\ res = 404
  /\ store = <<>>
  /\ mail = <<>>

\* C18: a RequestCommission that stores a commission stores one more, in status
\* pending, of the caller as client and the requested artist, without prices and
\* with an empty log, milestone list and payment schedule.
C18_CreatedPending ==
  [][(Handled("createCommission") /\ (res' = 201 \/ store' # store))
       => /\ Len(store') = Len(store) + 1
          /\ SubSeq(store', 1, Len(store)) = store
          /\ LET c == store'[Len(store')]
             IN /\ c.status = "pending"
                /\ c.client = req'.user
                /\ c.artist = req'.body.artistId
                /\ c.proposedPrice = Undefined
                /\ c.agreedPrice = Undefined
                /\ c.communication = <<>>
                /\ c.milestones = <<>>
                /\ c.payment.paymentSchedule = <<>>]_vars

\* eve's request to bob was answered 201 and is stored
C18_Witness ==
  /\ req.op = "createCommission" /\ res = 201
  /\ req.user = "eve"
  /\ Len(store) = 1
  /\ store[1].client = "eve" /\ store[1].artist = "bob"
  /\ store[1].status = "pending"
  /\ mail = <<"bob">>

\* the quote fails the chain validateQuote: no proposedPrice, one that is not a
\* number or is below 1, or a timeline.estimatedDays below 1
MalformedQuote(body) ==
  \/ ~ IsNum(body.proposedPrice)
  \/ body.proposedPrice < 1
  \/ IsNum(body.timeline.estimatedDays) /\ body.timeline.estimatedDays < 1

\* C19: a SubmitQuote of the artist with a malformed quote is answered with a
\* validation error (400) and leaves proposedPrice, milestones, timeline and
\* status as they are.
C19_MalformedQuoteRejected ==
  [][(Handled("submitQuote") /\ OnStored /\ req'.user = Before.artist
        /\ MalformedQuote(req'.body))
       => /\ res' = 400
          /\ After.proposedPrice = Before.proposedPrice
          /\ After.milestones = Before.milestones
          /\ After.timeline = Before.timeline
          /\ After.status = Before.status]_vars

\* C20: on a commission requested with a budget of 100 to 300 and quoted at 250
\* with two milestones of 50% each, the client's AcceptQuote leaves status
\* accepted, payment.totalAmount 250 and a schedule of exactly two installments
\* of 125.
C20_EndToEnd ==
  [][(Handled("acceptQuote") /\ OnStored
        /\ req'.user = Before.client
        /\ Before.budget = [min |-> 100, max |-> 300]
        /\ Before.proposedPrice = 250
        /\ Len(Before.milestones) = 2
        /\ \A i \in 1..2 : Before.milestones[i].paymentPercentage = 50)
       => /\ After.status = "accepted"
          /\ After.payment.totalAmount = 250
          /\ Len(After.payment.paymentSchedule) = 2
          /\ \A i \in 1..2 : After.payment.paymentSchedule[i].amount = 125]_vars

\* ann requested, bob quoted 250 in two halves, ann accepted
C20_Witness ==
  /\ req.op = "acceptQuote" /\ req.id \in Ids /\ res = 200
  /\ req.user = "ann"
  /\ store[req.id].client = "ann" /\ store[req.id].artist = "bob"
  /\ store[req.id].budget = [min |-> 100, max |-> 300]
  /\ store[req.id].status = "accepted"
  /\ store[req.id].agreedPrice = 250
  /\ store[req.id].payment.totalAmount = 250
  /\ Len(store[req.id].payment.paymentSchedule) = 2
  /\ store[req.id].payment.paymentSchedule[1].amount = 125
  /\ store[req.id].payment.paymentSchedule[2].amount = 125

\* the status a reader of the commission sees: the default for a stored
\* document that has none
ReadStatus(c) == IF c.status = NoStatus THEN "pending" ELSE c.status

\* C21: an UpdateStatus by the client or the artist of the commission that carries
\* one of the twelve status values sets the status to that value, from whatever
\* status the commission has, and appends exactly one entry to the log, sent by
\* the caller, that records the old and the new status; an UpdateStatus by
\* anybody else is answered 403 and changes neither the status nor the log.
C21_UpdateStatusUnchecked ==
  [][(Handled("updateCommissionStatus") /\ OnStored) =>
       IF req'.user \in {Before.client, Before.artist}
         THEN req'.body.status \in StatusEnum =>
                /\ After.status = req'.body.status
                /\ After.communication =
                     Append(Before.communication,
                            [sender |-> req'.user,
                             message |-> <<"Status changed from", ReadStatus(Before),
                                           "to", req'.body.status>>,
                             type |-> "message", timestamp |-> now])
         ELSE /\ res' = 403
              /\ After.status = Before.status
              /\ After.communication = Before.communication]_vars

\* bob moved the commission back from completed to pending
C21_Witness ==
  /\ req.op = "updateCommissionStatus" /\ req.id \in Ids
  /\ req.user = "bob" /\ res = 200
  /\ store[req.id].status = "pending"
  /\ Len(store[req.id].communication) = 2
  /\ store[req.id].communication[1].message
       = <<"Status changed from", "pending", "to", "completed">>
  /\ store[req.id].communication[2].sender = "bob"
  /\ store[req.id].communication[2].message
       = <<"Status changed from", "completed", "to", "pending">>

\* what acceptance fixes of a milestone list: the shares and the due dates
MilestoneTerms(milestones) ==
  [i \in 1..Len(milestones) |->
     [paymentPercentage |-> milestones[i].paymentPercentage,
      dueDate |-> milestones[i].dueDate]]

\* C22: on a commission whose status is accepted no operation replaces the
\* milestone list or changes the payment percentage or the due date of a
\* milestone.
C22_MilestonesFrozen ==
  [][\A id \in Ids :
       store[id].status = "accepted"
         => MilestoneTerms(store'[id].milestones) = MilestoneTerms(store[id].milestones)]_vars

\* C23: a CompleteMilestone that answers 200 leaves the status, the proposed and
\* the agreed price, the payment (total, paid amount, schedule and its paid
\* flags) and the log as they are and changes no milestone but the one at its
\* index, which it marks completed at the current date, whether or not it was
\* completed before; its share and its due date stay.
C23_CompleteMilestoneFrame ==
  [][(Handled("completeMilestone") /\ OnStored /\ res' = 200) =>
       /\ ReadStatus(After) = ReadStatus(Before)
       /\ After.proposedPrice = Before.proposedPrice
       /\ After.agreedPrice = Before.agreedPrice
       /\ After.payment = Before.payment
       /\ After.communication = Before.communication
       /\ Len(After.milestones) = Len(Before.milestones)
       /\ \A k \in 1..Len(Before.milestones) :
            After.milestones[k] =
              IF InRange(Before.milestones, req'.body.milestoneIndex)
                   /\ k = req'.body.milestoneIndex.v + 1
                THEN [Before.milestones[k] EXCEPT !.completed = TRUE,
                                                  !.completedDate = now]
                ELSE Before.milestones[k]]_vars

\* on the accepted commission, which has a schedule and a log, the second
\* milestone was completed and the first was not
C23_Witness ==
  /\ req.op = "completeMilestone" /\ req.id \in Ids /\ res = 200
  /\ req.body.milestoneIndex = IndexParam(1)
  /\ store[req.id].status = "accepted"
  /\ Len(store[req.id].payment.paymentSchedule) = 2
  /\ Len(store[req.id].communication) = 1
  /\ ~ store[req.id].milestones[1].completed
  /\ store[req.id].milestones[2].completed
  /\ store[req.id].milestones[2].completedDate = now

\* C24: a commission that has a payment schedule has a payment.totalAmount equal
\* to its agreedPrice.
C24_TotalIsAgreedPrice ==
  \A id \in Ids :
    store[id].payment.paymentSchedule # <<>>
      => store[id].payment.totalAmount = store[id].agreedPrice

\* a commission accepted at 200 and then quoted again at 400: the total and the
\* agreed price are both 200
C24_Witness ==
  /\ req.op = "submitQuote" /\ req.id \in Ids /\ res = 200
  /\ store[req.id].payment.paymentSchedule # <<>>
  /\ store[req.id].proposedPrice = 400
  /\ store[req.id].agreedPrice = 200
  /\ store[req.id].payment.totalAmount = 200

\* C25: every stored commission has one of the twelve status values, and an
\* UpdateStatus that carries anything else is answered with an error and leaves
\* the stored status and the log as they are.
C25_StatusInEnum ==
  [][/\ \A id \in Ids : store'[id].status \in StatusEnum
     /\ (Handled("updateCommissionStatus") /\ OnStored
           /\ req'.body.status \notin StatusEnum)
          => /\ res' \notin {200, 201}
             /\ After.status = Before.status
             /\ After.communication = Before.communication]_vars

\* C26: an AcceptQuote that answers 200 sets timeline.startDate to the current
\* date; on a commission that has a timeline.estimatedDays it sets
\* timeline.expectedCompletion to the current date plus that many days, on one
\* that has none it leaves timeline.expectedCompletion as it is.
C26_AcceptSetsDates ==
  [][(Handled("acceptQuote") /\ OnStored /\ res' = 200) =>
       /\ After.timeline.startDate = now
       /\ After.timeline.expectedCompletion =
            IF Before.timeline.estimatedDays # Undefined
              THEN now + Before.timeline.estimatedDays
              ELSE Before.timeline.expectedCompletion]_vars

\* C27: an AcceptQuote that saves the commission finds a proposedPrice that is a
\* number and leaves an agreedPrice and installment amounts that are numbers;
\* an AcceptQuote on a commission without a proposedPrice changes nothing.
C27_AcceptedAfterQuote ==
  [][(Handled("acceptQuote") /\ OnStored) =>
       /\ (res' = 200 \/ store' # store)
            => /\ IsNum(Before.proposedPrice)
               /\ IsNum(After.agreedPrice)
               /\ \A i \in 1..Len(After.payment.paymentSchedule) :
                    IsNum(After.payment.paymentSchedule[i].amount)
       /\ Before.proposedPrice = Undefined => store' = store]_vars

\* the entry the log starts with: ann's message of day 0
FirstMessage ==
  [sender |-> "ann", message |-> <<"hello">>, type |-> "message", timestamp |-> 0]

\* C28: when the request of the client and the request of the artist, each an
\* AddMessage or an UpdateStatus on the same commission, have both answered 200,
\* the stored log is the log they found followed by the entries of the two, in
\* one order or the other, however the two overlapped.
C28_NoMessageLost ==
  (/\ inflight.client.stage = "done" /\ inflight.client.res = 200
   /\ inflight.artist.stage = "done" /\ inflight.artist.res = 200)
    => store[1].communication \in
         {<<FirstMessage, inflight.client.entry, inflight.artist.entry>>,
          <<FirstMessage, inflight.artist.entry, inflight.client.entry>>}

\* both handlers loaded the log of one entry, the artist changed the status a day
\* before the client's message was saved, and the log has three entries
C28_Witness ==
  /\ inflight.client.stage = "done" /\ inflight.client.res = 200
  /\ inflight.artist.stage = "done" /\ inflight.artist.res = 200
  /\ Len(inflight.client.loaded.communication) = 1
  /\ Len(inflight.artist.loaded.communication) = 1
  /\ inflight.artist.entry.message = <<"Status changed from", "pending", "to", "in_progress">>
  /\ inflight.client.entry.message = <<"hello">>
  /\ Len(store[1].communication) = 3
  /\ store[1].communication[2] = inflight.artist.entry
  /\ store[1].communication[3] = inflight.client.entry
  /\ store[1].status = "in_progress"

\* C29: a handler sends at most one notification, none when it answers 400, 403
\* or 404, none in completeMilestone, and never one to its caller.
C29_NotifiesOtherParty ==
  [][now' = now =>
       /\ Len(mail') <= 1
       /\ res' \in {400, 403, 404} => mail' = <<>>
       /\ req'.op = "completeMilestone" => mail' = <<>>
       /\ \A i \in 1..Len(mail') : mail'[i] # req'.user]_vars

\* C30: in every state timeline.expectedCompletion, when there is one, is not
\* earlier than timeline.startDate, when there is one, and the second of two
\* default installments is not due before the first.
C30_DatesInOrder ==
  \A id \in Ids :
    LET c == store[id]
    IN /\ (c.timeline.startDate # Undefined /\ c.timeline.expectedCompletion # Undefined)
            => c.timeline.expectedCompletion >= c.timeline.startDate
       /\ (c.milestones = <<>> /\ Len(c.payment.paymentSchedule) = 2)
            => c.payment.paymentSchedule[2].dueDate >= c.payment.paymentSchedule[1].dueDate

====
